---- MODULE Spec2Model ----
(***************************************************************************)
(* State-machine model of the OpenHarmony backend of winit                 *)
(* (src/platform_impl/ohos/mod.rs): the event-loop driver (run_app and the *)
(* closure it hands to the native run_loop), the input normalizer          *)
(* (handle_input_event), the active-loop handle's cells, the process-wide  *)
(* focus flag, the event-loop proxy and the window's identity, geometry,   *)
(* handle and unsupported operations.                                      *)
(*                                                                         *)
(* Positions, forces and device ids of native input are copied through by  *)
(* the code without any decision being taken on them; the model leaves     *)
(* them out of the event records.                                          *)
(***************************************************************************)
EXTENDS Integers, Sequences, FiniteSets, TLC

\* ------------------------------------------------------------------ bounds
\* finger ids of native touch points are 0..MaxFinger
MaxFinger == 1
\* a native touch event carries at most MaxPoints touch points
MaxPoints == 2
\* native surface width and height range over 1..MaxDim
MaxDim == 2
\* the runtime's scale factor ranges over 1..MaxScale
MaxScale == 2
\* length of the recorded history of native input events (SpecTouch)
MaxEvents == 4
\* wake_up calls not yet observed by the loop are counted up to MaxWakes
MaxWakes == 2
\* native events dequeued while the callbacks are followed one by one (SpecCalls)
MaxDequeued == 2
\* create_window is called at most MaxWindows times
MaxWindows == 2

\* ------------------------------------------------------------ option type
None == <<>>
Some(x) == <<x>>

\* --------------------------------------------------------- native events
Fingers == 0..MaxFinger

\* TouchEvent action kinds; "Other" stands for every variant of the native
\* enum that is none of Down, Move, Up, Cancel
TouchActions == {"Down", "Move", "Up", "Cancel", "Other"}

\* key Action kinds; "Other" stands for every variant that is not Down or Up
KeyActions == {"Down", "Up", "Other"}

Range(s) == {s[i] : i \in DOMAIN s}

RECURSIVE DistinctSeqsUpTo(_, _)
\* the sequences of at most n elements of S in which no element repeats
DistinctSeqsUpTo(S, n) ==
    IF n = 0 THEN {<<>>}
    ELSE LET shorter == DistinctSeqsUpTo(S, n - 1)
         IN shorter \cup UNION {{Append(s, x) : x \in S \ Range(s)} : s \in shorter}

\* the ordered touch points of one touch event, each known by its finger
\* id; one event lists a contact once
TouchPointLists == DistinctSeqsUpTo(Fingers, MaxPoints)

TouchInput(action, touch_points) ==
    [type |-> "TouchEvent", event_type |-> action, touch_points |-> touch_points]

KeyInput(action) == [type |-> "KeyEvent", action |-> action]

\* any InputEvent variant that is neither TouchEvent nor KeyEvent
OtherInput == [type |-> "Other"]

InputEvents ==
    {TouchInput(a, pts) : a \in TouchActions, pts \in TouchPointLists}
        \cup {KeyInput(a) : a \in KeyActions}
        \cup {OtherInput}

MainEvent(kind) == [kind |-> kind]

InputMainEvent(input) == [kind |-> "Input", input |-> input]

NoEvent == [kind |-> "None"]

\* what native_window() can return: no surface, or a surface with a size
PhysicalSize(width, height) == [width |-> width, height |-> height]

NativeWindows ==
    {None} \cup {Some(PhysicalSize(w, h)) : w \in 1..MaxDim, h \in 1..MaxDim}

Scales == 1..MaxScale

\* ---------------------------------------------------- program constants
GLOBAL_WINDOW == 0

ControlFlowDefault == [mode |-> "Wait"]

\* the deadline of WaitUntil is an opaque Instant that nothing here reads
ControlFlows == {[mode |-> "Poll"], [mode |-> "Wait"], [mode |-> "WaitUntil"]}

\* -------------------------------------------------- application callbacks
Call(cb) == [cb |-> cb]

NewEventsCall(start_cause) == [cb |-> "new_events", cause |-> start_cause]

WindowEventCall(event) ==
    [cb |-> "window_event", window_id |-> GLOBAL_WINDOW, event |-> event]

PointerEntered(primary) == [type |-> "PointerEntered", primary |-> primary]

PointerButton(state, primary) ==
    [type |-> "PointerButton", state |-> state, primary |-> primary]

PointerMoved(primary) == [type |-> "PointerMoved", primary |-> primary]

PointerLeft(primary) == [type |-> "PointerLeft", primary |-> primary]

KeyboardInput(state) ==
    [type |-> "KeyboardInput", state |-> state, repeat |-> FALSE]

SurfaceResized(size) == [type |-> "SurfaceResized", size |-> size]

RedrawRequested == [type |-> "RedrawRequested"]

Focused(focused) == [type |-> "Focused", focused |-> focused]

ScaleFactorChanged(size, scale) ==
    [type |-> "ScaleFactorChanged", surface_size |-> size, scale_factor |-> scale]

\* ------------------------------------------------------------------ state
VARIABLES
    pc,               \* "created", "running" (inside run_loop), "returned",
                      \* "panicked"
    running,          \* EventLoop.running
    cause,            \* EventLoop.cause
    primary_pointer,  \* EventLoop.primary_pointer : Option<FingerId>
    control_flow,     \* ActiveEventLoop.control_flow
    exit,             \* ActiveEventLoop.exit
    HAS_FOCUS,        \* the process-wide AtomicBool
    last,             \* history: the native event dispatched last, with what
                      \* the runtime answered to the queries made for it
    out,              \* history: the callbacks made by the last operation
    focus_note,       \* history: value of the most recent focus notification
    in_callback,      \* history: has_focus() as read inside the last Focused callback
    reader,           \* history: last has_focus() read of a reader thread
    last_down,        \* history: finger of the touch point of the last Down processed
    events,           \* history: the recorded native events, in dequeue order
    log,              \* history: log[i] is the sequence of callbacks made for events[i]
    exit_called,      \* history: exit() has been called
    last_set,         \* history: argument of the most recent set_control_flow
    wakes,            \* the waker behind EventLoopProxy: the wake_up calls the
                      \* loop has not observed yet (MaxWakes stands for more)
    nwindows,         \* number of windows create_window has returned
    call,             \* history: the last call made on a window or on the
                      \* active loop's fallible operations, with its result
    started,          \* SpecCalls: how many of the callbacks in log have begun
    returned,         \* SpecCalls: how many of them have returned
    attributes        \* history: the openharmony_app of the attributes that
                      \* EventLoop::new was given

program == <<pc, running, cause, primary_pointer, control_flow, exit, HAS_FOCUS>>

history == <<last, out, focus_note, in_callback, reader, last_down, events, log>>

\* what the calls of the application-facing handles leave behind
facade == <<exit_called, last_set, wakes, nwindows, call, started, returned, attributes>>

vars == <<pc, running, cause, primary_pointer, control_flow, exit, HAS_FOCUS,
          last, out, focus_note, in_callback, reader, last_down, events, log,
          exit_called, last_set, wakes, nwindows, call, started, returned, attributes>>

\* no call made yet on a window or on the active loop
NoCall == [op |-> "None"]

\* -------------------------------------------------------- EventLoop::new
\* PlatformSpecificEventLoopAttributes.openharmony_app: Option<OpenHarmonyApp>
OpenHarmonyApps == {None, Some("OpenHarmonyApp")}

\* `attributes.openharmony_app.as_ref().expect(..)`, then Ok(Self { .. })
EventLoopNew(openharmony_app) ==
    IF openharmony_app = None THEN "panicked" ELSE "created"

Init ==
    /\ attributes \in OpenHarmonyApps
    /\ pc = EventLoopNew(attributes)
    /\ running = FALSE
    /\ cause = "Init"
    /\ primary_pointer = None
    /\ control_flow = ControlFlowDefault
    /\ exit = FALSE
    /\ HAS_FOCUS = TRUE
    /\ last = [event |-> NoEvent]
    /\ out = <<>>
    /\ focus_note = None
    /\ in_callback = None
    /\ reader = None
    /\ last_down = None
    /\ events = <<>>
    /\ log = <<>>
    /\ exit_called = FALSE
    /\ last_set = None
    /\ wakes = 0
    /\ nwindows = 0
    /\ call = NoCall
    /\ started = 0
    /\ returned = 0

\* ------------------------------------------------- history bookkeeping
\* the dispatch of native event e made the callbacks `calls`, after the
\* runtime answered `query`; rec says whether the event history records it
Dispatched(e, query, calls, rec) ==
    /\ last' = [event |-> e, query |-> query]
    /\ out' = calls
    /\ IF rec
       THEN /\ events' = Append(events, e)
            /\ log' = Append(log, calls)
       ELSE UNCHANGED <<events, log>>
    /\ UNCHANGED facade

NoQuery == [none |-> TRUE]

\* ------------------------------------- handle_input_event: touch points
\* `let primary = action == TouchEvent::Down` inside the Down arm
DownPrimary(action) == action = "Down"

\* variant of DownPointer in which the first finger down stays primary
DownPointerFirstWins(action, pp, finger_id) ==
    LET tracked == IF pp = None THEN Some(finger_id) ELSE pp
        primary == tracked = Some(finger_id)
    IN [primary_pointer |-> tracked,
        calls |-> <<WindowEventCall(PointerEntered(primary)),
                    WindowEventCall(PointerButton("Pressed", primary))>>]

\* one touch point of a Down event
DownPointer(action, pp, finger_id) ==
    LET primary == DownPrimary(action)
    IN [primary_pointer |-> IF primary THEN Some(finger_id) ELSE pp,
        calls |-> <<WindowEventCall(PointerEntered(primary)),
                    WindowEventCall(PointerButton("Pressed", primary))>>]

\* variant of MovePrimary: primary as soon as any finger is tracked
MovePrimaryAnyTracked(pp, finger_id) == pp # None

\* `let primary = self.primary_pointer == Some(finger_id)` of the Move arm
MovePrimary(pp, finger_id) == pp = Some(finger_id)

\* one touch point of a Move event
MovePointer(pp, finger_id) ==
    LET primary == MovePrimary(pp, finger_id)
    IN [primary_pointer |-> pp,
        calls |-> <<WindowEventCall(PointerMoved(primary))>>]

\* variant of UpCancelPrimary: a contact leaves with the primary value it
\* entered with, and every contact enters as primary
UpCancelPrimaryAsEntered(pp, finger_id) == TRUE

\* `let primary = self.primary_pointer == Some(finger_id)` of the Up | Cancel arm
UpCancelPrimary(pp, finger_id) == pp = Some(finger_id)

\* variant of UpCancelPointer that leaves before it releases
UpCancelPointerLeftFirst(action, pp, finger_id) ==
    LET primary == UpCancelPrimary(pp, finger_id)
        released == IF action = "Up"
                    THEN <<WindowEventCall(PointerButton("Released", primary))>>
                    ELSE <<>>
    IN [primary_pointer |-> pp,
        calls |-> <<WindowEventCall(PointerLeft(primary))>> \o released]

\* variant of UpCancelPointer that releases on Cancel as on Up
UpCancelPointerAlwaysReleased(action, pp, finger_id) ==
    LET primary == UpCancelPrimary(pp, finger_id)
    IN [primary_pointer |-> pp,
        calls |-> <<WindowEventCall(PointerButton("Released", primary)),
                    WindowEventCall(PointerLeft(primary))>>]

\* variant of UpCancelPointer that forgets the primary finger once it leaves
UpCancelPointerResets(action, pp, finger_id) ==
    LET primary == UpCancelPrimary(pp, finger_id)
        released == IF action = "Up"
                    THEN <<WindowEventCall(PointerButton("Released", primary))>>
                    ELSE <<>>
    IN [primary_pointer |-> IF primary THEN None ELSE pp,
        calls |-> released \o <<WindowEventCall(PointerLeft(primary))>>]

\* one touch point of an Up or Cancel event
UpCancelPointer(action, pp, finger_id) ==
    LET primary == UpCancelPrimary(pp, finger_id)
        released == IF action = "Up"
                    THEN <<WindowEventCall(PointerButton("Released", primary))>>
                    ELSE <<>>
    IN [primary_pointer |-> pp,
        calls |-> released \o <<WindowEventCall(PointerLeft(primary))>>]

RECURSIVE TouchLoopReversed(_, _, _, _)
\* variant of TouchLoop that takes the touch points from the last to the first
TouchLoopReversed(action, touch_points, pp, acc) ==
    IF touch_points = <<>>
    THEN [primary_pointer |-> pp, calls |-> acc, panicked |-> FALSE]
    ELSE LET finger_id == touch_points[Len(touch_points)]
             rest == SubSeq(touch_points, 1, Len(touch_points) - 1)
         IN CASE action = "Down" ->
                   LET r == DownPointer(action, pp, finger_id)
                   IN TouchLoopReversed(action, rest, r.primary_pointer, acc \o r.calls)
              [] action = "Move" ->
                   LET r == MovePointer(pp, finger_id)
                   IN TouchLoopReversed(action, rest, r.primary_pointer, acc \o r.calls)
              [] action \in {"Up", "Cancel"} ->
                   LET r == UpCancelPointer(action, pp, finger_id)
                   IN TouchLoopReversed(action, rest, r.primary_pointer, acc \o r.calls)
              [] OTHER ->
                   [primary_pointer |-> pp, calls |-> acc, panicked |-> TRUE]

RECURSIVE TouchLoop(_, _, _, _)
\* `for pointer in motion_event.touch_points.iter() { match action .. }`:
\* pp is the tracked primary finger so far, acc the callbacks made so far;
\* an action that is none of the four panics at the first touch point
TouchLoop(action, touch_points, pp, acc) ==
    IF touch_points = <<>>
    THEN [primary_pointer |-> pp, calls |-> acc, panicked |-> FALSE]
    ELSE LET finger_id == Head(touch_points)
             rest == Tail(touch_points)
         IN CASE action = "Down" ->
                   LET r == DownPointer(action, pp, finger_id)
                   IN TouchLoop(action, rest, r.primary_pointer, acc \o r.calls)
              [] action = "Move" ->
                   LET r == MovePointer(pp, finger_id)
                   IN TouchLoop(action, rest, r.primary_pointer, acc \o r.calls)
              [] action \in {"Up", "Cancel"} ->
                   LET r == UpCancelPointer(action, pp, finger_id)
                   IN TouchLoop(action, rest, r.primary_pointer, acc \o r.calls)
              [] OTHER ->
                   [primary_pointer |-> pp, calls |-> acc, panicked |-> TRUE]

\* ---------------------------------------- handle_input_event: key events
\* variant of KeyState whose fallback arm presses
KeyStateFallbackPressed(action) ==
    CASE action = "Down" -> "Pressed"
      [] action = "Up" -> "Released"
      [] OTHER -> "Pressed"

\* `match key.action { Down => Pressed, Up => Released, _ => Released }`
KeyState(action) ==
    CASE action = "Down" -> "Pressed"
      [] action = "Up" -> "Released"
      [] OTHER -> "Released"

KeyEventCalls(action) == <<WindowEventCall(KeyboardInput(KeyState(action)))>>

\* variant of handle_input_event that aborts on the input variants it does
\* not know
HandleInputEventStrict(input, pp) ==
    CASE input.type = "TouchEvent" ->
           TouchLoop(input.event_type, input.touch_points, pp, <<>>)
      [] input.type = "KeyEvent" ->
           [primary_pointer |-> pp, calls |-> KeyEventCalls(input.action),
            panicked |-> FALSE]
      [] OTHER ->
           [primary_pointer |-> pp, calls |-> <<>>, panicked |-> TRUE]

\* the whole of handle_input_event, from the tracked primary finger pp
HandleInputEvent(input, pp) ==
    CASE input.type = "TouchEvent" ->
           TouchLoop(input.event_type, input.touch_points, pp, <<>>)
      [] input.type = "KeyEvent" ->
           [primary_pointer |-> pp, calls |-> KeyEventCalls(input.action),
            panicked |-> FALSE]
      [] OTHER ->
           [primary_pointer |-> pp, calls |-> <<>>, panicked |-> FALSE]

\* ------------------------------------------------ run_loop closure: arms
SurfaceCreateCalls == <<Call("can_create_surfaces")>>

SurfaceDestroyCalls == <<Call("destroy_surfaces")>>

\* variant of WindowResizeCalls that skips the event without a surface
WindowResizeCallsSkip(win) ==
    IF win # None
    THEN <<WindowEventCall(SurfaceResized(PhysicalSize(win[1].width, win[1].height)))>>
    ELSE <<>>

\* WindowResize: the size of the native surface, 0x0 when there is none
WindowResizeCalls(win) ==
    LET size == IF win # None
                THEN PhysicalSize(win[1].width, win[1].height)
                ELSE PhysicalSize(0, 0)
    IN <<WindowEventCall(SurfaceResized(size))>>

WindowRedrawCalls == <<WindowEventCall(RedrawRequested)>>

ContentRectChangeCalls == <<>>

\* GainedFocus: store, then emit; in_callback is what has_focus() returns
\* while the Focused callback runs
GainedFocusArm(has_focus) ==
    LET stored == TRUE
    IN [HAS_FOCUS |-> stored,
        calls |-> <<WindowEventCall(Focused(TRUE))>>,
        in_callback |-> stored]

\* variant of LostFocusArm that emits before it stores
LostFocusArmEmitFirst(has_focus) ==
    [HAS_FOCUS |-> FALSE,
     calls |-> <<WindowEventCall(Focused(FALSE))>>,
     in_callback |-> has_focus]

\* LostFocus: store, then emit
LostFocusArm(has_focus) ==
    LET stored == FALSE
    IN [HAS_FOCUS |-> stored,
        calls |-> <<WindowEventCall(Focused(FALSE))>>,
        in_callback |-> stored]

\* variant of ConfigChangedCalls that falls back to 0x0 without a surface
ConfigChangedCallsFallback(win, scale) ==
    IF win # None
    THEN <<WindowEventCall(
             ScaleFactorChanged(PhysicalSize(win[1].width, win[1].height), scale))>>
    ELSE <<WindowEventCall(ScaleFactorChanged(PhysicalSize(0, 0), scale))>>

\* ConfigChanged: emits only `if let Some(win) = win`
ConfigChangedCalls(win, scale) ==
    IF win # None
    THEN <<WindowEventCall(
             ScaleFactorChanged(PhysicalSize(win[1].width, win[1].height), scale))>>
    ELSE <<>>

LowMemoryCalls == <<Call("memory_warning")>>

StartCalls == <<Call("resumed")>>

\* variant of ResumeRunning with the commented-out assignment restored
ResumeRunningSet(r) == TRUE

\* Resume: `self.running = true` is commented out
ResumeRunning(r) == r

\* variant of ResumeCalls for a loop that announces every resume with
\* a new_events call
ResumeCallsNewEvents == <<NewEventsCall("Poll")>>

ResumeCalls == <<>>

SaveStateCalls == <<>>

\* Pause: `self.running = false` is commented out
PauseRunning(r) == r

PauseCalls == <<>>

StopCalls == <<Call("suspended")>>

DestroyCalls == <<>>

UnknownCalls == <<>>

\* --------------------------------------------------- EventLoop::run_app
\* run_app up to its entry into the native run_loop
RunApp ==
    /\ pc = "created"
    /\ pc' = "running"
    /\ out' = <<NewEventsCall(cause)>>
    /\ UNCHANGED <<running, cause, primary_pointer, control_flow, exit, HAS_FOCUS,
                   last, focus_note, in_callback, reader, last_down, events, log>>
    /\ UNCHANGED facade

\* run_loop calls the closure with the next native event whenever the
\* runtime has one: all it takes is that run_app is inside run_loop
DequeuedUntilExit == pc = "running" /\ ~exit

Dequeued == pc = "running"

\* the native run_loop returns, and run_app returns Ok(()) with it; when
\* that happens is the runtime's decision
RunLoopReturn ==
    /\ pc = "running"
    /\ pc' = "returned"
    /\ UNCHANGED <<running, cause, primary_pointer, control_flow, exit, HAS_FOCUS>>
    /\ UNCHANGED history
    /\ UNCHANGED facade

\* an arm that only calls the application (or does nothing at all)
Forward(kind, calls) ==
    /\ Dispatched(MainEvent(kind), NoQuery, calls, FALSE)
    /\ UNCHANGED <<pc, running, cause, primary_pointer, control_flow, exit,
                   HAS_FOCUS, focus_note, in_callback, reader, last_down>>

OnSurfaceCreate ==
    /\ Dequeued
    /\ Forward("SurfaceCreate", SurfaceCreateCalls)

OnSurfaceDestroy ==
    /\ Dequeued
    /\ Forward("SurfaceDestroy", SurfaceDestroyCalls)

OnWindowResize ==
    /\ Dequeued
    /\ \E win \in NativeWindows :
          Dispatched(MainEvent("WindowResize"), [native_window |-> win],
                     WindowResizeCalls(win), FALSE)
    /\ UNCHANGED <<pc, running, cause, primary_pointer, control_flow, exit,
                   HAS_FOCUS, focus_note, in_callback, reader, last_down>>

OnWindowRedraw ==
    /\ Dequeued
    /\ Forward("WindowRedraw", WindowRedrawCalls)

OnContentRectChange ==
    /\ Dequeued
    /\ Forward("ContentRectChange", ContentRectChangeCalls)

OnGainedFocus ==
    /\ Dequeued
    /\ LET r == GainedFocusArm(HAS_FOCUS)
       IN /\ HAS_FOCUS' = r.HAS_FOCUS
          /\ in_callback' = Some(r.in_callback)
          /\ Dispatched(MainEvent("GainedFocus"), NoQuery, r.calls, FALSE)
    /\ focus_note' = Some(TRUE)
    /\ UNCHANGED <<pc, running, cause, primary_pointer, control_flow, exit, reader, last_down>>

OnLostFocus ==
    /\ Dequeued
    /\ LET r == LostFocusArm(HAS_FOCUS)
       IN /\ HAS_FOCUS' = r.HAS_FOCUS
          /\ in_callback' = Some(r.in_callback)
          /\ Dispatched(MainEvent("LostFocus"), NoQuery, r.calls, FALSE)
    /\ focus_note' = Some(FALSE)
    /\ UNCHANGED <<pc, running, cause, primary_pointer, control_flow, exit, reader, last_down>>

OnConfigChanged ==
    /\ Dequeued
    /\ \E win \in NativeWindows :
          \/ /\ win = None
             /\ Dispatched(MainEvent("ConfigChanged"), [native_window |-> win],
                           ConfigChangedCalls(win, 0), FALSE)
          \/ /\ win # None
             /\ \E scale \in Scales :
                   Dispatched(MainEvent("ConfigChanged"),
                              [native_window |-> win, scale |-> scale],
                              ConfigChangedCalls(win, scale), FALSE)
    /\ UNCHANGED <<pc, running, cause, primary_pointer, control_flow, exit,
                   HAS_FOCUS, focus_note, in_callback, reader, last_down>>

OnLowMemory ==
    /\ Dequeued
    /\ Forward("LowMemory", LowMemoryCalls)

OnStart ==
    /\ Dequeued
    /\ Forward("Start", StartCalls)

OnResume ==
    /\ Dequeued
    /\ running' = ResumeRunning(running)
    /\ Dispatched(MainEvent("Resume"), NoQuery, ResumeCalls, FALSE)
    /\ UNCHANGED <<pc, cause, primary_pointer, control_flow, exit,
                   HAS_FOCUS, focus_note, in_callback, reader, last_down>>

OnSaveState ==
    /\ Dequeued
    /\ Forward("SaveState", SaveStateCalls)

OnPause ==
    /\ Dequeued
    /\ running' = PauseRunning(running)
    /\ Dispatched(MainEvent("Pause"), NoQuery, PauseCalls, FALSE)
    /\ UNCHANGED <<pc, cause, primary_pointer, control_flow, exit,
                   HAS_FOCUS, focus_note, in_callback, reader, last_down>>

OnStop ==
    /\ Dequeued
    /\ Forward("Stop", StopCalls)

OnDestroy ==
    /\ Dequeued
    /\ Forward("Destroy", DestroyCalls)

OnUnknown ==
    /\ Dequeued
    /\ Forward("Unknown", UnknownCalls)

\* a touch event with action Down and at least one touch point
IsNonEmptyDown(input) ==
    /\ input.type = "TouchEvent"
    /\ input.event_type = "Down"
    /\ input.touch_points # <<>>

\* MainEvent::Input(e) => self.handle_input_event(..)
OnInput(input, rec) ==
    /\ Dequeued
    /\ LET r == HandleInputEvent(input, primary_pointer)
       IN /\ primary_pointer' = r.primary_pointer
          /\ pc' = IF r.panicked THEN "panicked" ELSE pc
          /\ Dispatched(InputMainEvent(input), NoQuery, r.calls, rec)
    /\ last_down' = IF IsNonEmptyDown(input)
                    THEN Some(input.touch_points[Len(input.touch_points)])
                    ELSE last_down
    /\ UNCHANGED <<running, cause, control_flow, exit, HAS_FOCUS, focus_note,
                   in_callback, reader>>

\* ------------------------------------------------------ ActiveEventLoop
\* fn clear_exit(&self): the value it stores. It is private to the module,
\* and nothing in the module calls it
ClearExit == FALSE

\* the handle lives in the EventLoop, which run_app consumes: it can be
\* called until run_app returns
SetControlFlowClearsExit(cf) ==
    /\ pc \in {"created", "running"}
    /\ control_flow' = cf
    /\ exit' = ClearExit
    /\ last_set' = Some(cf)
    /\ UNCHANGED <<pc, running, cause, primary_pointer, HAS_FOCUS>>
    /\ UNCHANGED history
    /\ UNCHANGED <<exit_called, wakes, nwindows, call, started, returned, attributes>>

SetControlFlowNoWaitUntil(cf) ==
    /\ pc \in {"created", "running"}
    /\ control_flow' = IF cf.mode = "WaitUntil" THEN control_flow ELSE cf
    /\ last_set' = Some(cf)
    /\ UNCHANGED <<pc, running, cause, primary_pointer, exit, HAS_FOCUS>>
    /\ UNCHANGED history
    /\ UNCHANGED <<exit_called, wakes, nwindows, call, started, returned, attributes>>

SetControlFlow(cf) ==
    /\ pc \in {"created", "running"}
    /\ control_flow' = cf
    /\ last_set' = Some(cf)
    /\ UNCHANGED <<pc, running, cause, primary_pointer, exit, HAS_FOCUS>>
    /\ UNCHANGED history
    /\ UNCHANGED <<exit_called, wakes, nwindows, call, started, returned, attributes>>

\* fn control_flow(&self) -> ControlFlow
ControlFlowGet(cf) == cf

Exit ==
    /\ pc \in {"created", "running"}
    /\ exit' = TRUE
    /\ exit_called' = TRUE
    /\ UNCHANGED <<pc, running, cause, primary_pointer, control_flow, HAS_FOCUS>>
    /\ UNCHANGED history
    /\ UNCHANGED <<last_set, wakes, nwindows, call, started, returned, attributes>>

\* fn exiting(&self) -> bool
Exiting(e) == e

\* ------------------------------------------------------- EventLoopProxy
\* OpenHarmonyWaker::wake, called any number of times before the loop looks:
\* the wakes are coalesced, what the waker keeps of them is that there is one
WakerWake(pending) == IF pending < MaxWakes THEN pending + 1 ELSE MaxWakes

\* what is left pending once the loop has looked
WakerObservedOne(pending) == pending - 1

WakerObserved(pending) == 0

\* fn wake_up(&self) { self.waker.wake(); } on a proxy of create_proxy, from
\* any thread: the proxy holds the waker and nothing of the loop
WakeUpWhileRunning ==
    /\ pc = "running"
    /\ wakes' = WakerWake(wakes)
    /\ UNCHANGED program
    /\ UNCHANGED history
    /\ UNCHANGED <<exit_called, last_set, nwindows, call, started, returned, attributes>>

WakeUp ==
    /\ pc \in {"created", "running", "returned"}
    /\ wakes' = WakerWake(wakes)
    /\ UNCHANGED program
    /\ UNCHANGED history
    /\ UNCHANGED <<exit_called, last_set, nwindows, call, started, returned, attributes>>

\* the runtime's loop comes round for the pending wakes; the closure has no
\* arm that calls the application for a wake
ObserveWake ==
    /\ pc = "running"
    /\ wakes > 0
    /\ wakes' = WakerObserved(wakes)
    /\ UNCHANGED program
    /\ UNCHANGED history
    /\ UNCHANGED <<exit_called, last_set, nwindows, call, started, returned, attributes>>

\* ------------------------------------------------------ Window::has_focus
HasFocus(has_focus) == has_focus

\* a reader thread calls has_focus(); the atomic load takes its place in
\* the modification order of HAS_FOCUS
ReaderHasFocus ==
    /\ pc \in {"created", "running"}
    /\ reader' = Some([value |-> HasFocus(HAS_FOCUS), note |-> focus_note])
    /\ UNCHANGED program
    /\ UNCHANGED <<last, out, focus_note, in_callback, last_down, events, log>>
    /\ UNCHANGED facade

\* ---------------------------------------------------------------- Window
\* Result<T, E>
Ok(x) == [ok |-> x]

Err(e) == [err |-> e]

\* WindowAttributes, as far as a caller can vary them
WindowAttributes == {"default", "custom"}

\* Window::new: the attributes are ignored
WindowNew(window_attrs) == Ok("Window")

\* fn create_window(&self, window_attributes) on the active loop; the
\* windows returned so far are 1..nwindows, each a clone of the same app
CreateWindow ==
    /\ pc \in {"created", "running"}
    /\ nwindows < MaxWindows
    /\ \E window_attrs \in WindowAttributes :
          /\ WindowNew(window_attrs) = Ok("Window")
          /\ nwindows' = nwindows + 1
    /\ UNCHANGED program
    /\ UNCHANGED history
    /\ UNCHANGED <<exit_called, last_set, wakes, call, started, returned, attributes>>

\* a call on a window or on the active loop is made and returns; the call
\* and its result are noted, and that is all that changes
Called(c) ==
    /\ call' = c
    /\ UNCHANGED program
    /\ UNCHANGED history
    /\ UNCHANGED <<exit_called, last_set, wakes, nwindows, started, returned, attributes>>

\* fn id(&self) -> WindowId, on the window that call number w of
\* create_window returned
WindowIdPerWindow(w) == w - 1

WindowId(w) == GLOBAL_WINDOW

IdCall ==
    /\ pc # "panicked"
    /\ \E w \in 1..nwindows :
          Called([op |-> "id", window |-> w, result |-> WindowId(w)])

\* ---- the operations this platform does not support
NotSupported == "NotSupported"

CursorPositions == {<<0, 0>>, <<1, 1>>}

CursorGrabModes == {"None", "Confined", "Locked"}

ResizeDirections == {"East", "SouthWest"}

CustomCursorSources == {"image", "url"}

CreateCustomCursor(source) == Err(NotSupported)

SetCursorPosition(position) == Err(NotSupported)

\* releasing a grab that is not held succeeds
SetCursorGrabRelease(mode) == IF mode = "None" THEN Ok("unit") ELSE Err(NotSupported)

SetCursorGrab(mode) == Err(NotSupported)

DragWindow == Err(NotSupported)

DragResizeWindow(direction) == Err(NotSupported)

SetCursorHittest(hittest) == Err(NotSupported)

CreateCustomCursorCall ==
    /\ pc \in {"created", "running"}
    /\ \E source \in CustomCursorSources :
          Called([op |-> "create_custom_cursor", arg |-> source,
                  result |-> CreateCustomCursor(source)])

SetCursorPositionCall ==
    /\ pc # "panicked" /\ nwindows > 0
    /\ \E position \in CursorPositions :
          Called([op |-> "set_cursor_position", arg |-> position,
                  result |-> SetCursorPosition(position)])

SetCursorGrabCall ==
    /\ pc # "panicked" /\ nwindows > 0
    /\ \E mode \in CursorGrabModes :
          Called([op |-> "set_cursor_grab", arg |-> mode,
                  result |-> SetCursorGrab(mode)])

DragWindowCall ==
    /\ pc # "panicked" /\ nwindows > 0
    /\ Called([op |-> "drag_window", arg |-> None, result |-> DragWindow])

DragResizeWindowCall ==
    /\ pc # "panicked" /\ nwindows > 0
    /\ \E direction \in ResizeDirections :
          Called([op |-> "drag_resize_window", arg |-> direction,
                  result |-> DragResizeWindow(direction)])

SetCursorHittestCall ==
    /\ pc # "panicked" /\ nwindows > 0
    /\ \E hittest \in BOOLEAN :
          Called([op |-> "set_cursor_hittest", arg |-> hittest,
                  result |-> SetCursorHittest(hittest)])

\* ---- geometry
\* the size outer_size() would return if it asked the runtime for its surface
SurfaceSizeOfNative(win) == IF win = None THEN Err("NoSurface") ELSE win[1]

\* fn surface_size(&self) -> PhysicalSize<u32>
SurfaceSize(win) == PhysicalSize(1080, 2720)

\* fn outer_size(&self) -> PhysicalSize<u32>
OuterSize(win) == PhysicalSize(1080, 2720)

\* the size carried by the SurfaceResized callback of the native event
\* dispatched last, if that was a WindowResize with a surface
Resized ==
    IF last.event = MainEvent("WindowResize") /\ last.query.native_window # None
    THEN last.query.native_window
    ELSE None

\* the call notes the surface the runtime has at the time (the code does
\* not ask for it) and what the last WindowResize reported
SurfaceSizeCall ==
    /\ pc # "panicked" /\ nwindows > 0
    /\ \E win \in NativeWindows :
          Called([op |-> "surface_size", native_window |-> win,
                  resized |-> Resized, result |-> SurfaceSize(win)])

OuterSizeCall ==
    /\ pc # "panicked" /\ nwindows > 0
    /\ \E win \in NativeWindows :
          Called([op |-> "outer_size", native_window |-> win,
                  resized |-> Resized, result |-> OuterSize(win)])

\* ---- handles
Unavailable == "Unavailable"

\* what native_window() and then raw_window_handle() can return: no
\* surface, a surface without a raw handle, a surface with one
NativeHandles == {None, Some(None), Some(Some("raw"))}

\* fn raw_window_handle_rwh_06(&self), taken over by window_handle()
WindowHandleUnchecked(native_window) ==
    IF native_window # None /\ native_window[1] # None
    THEN Ok(native_window[1][1])
    ELSE Ok("raw")

WindowHandle(native_window) ==
    IF native_window # None
    THEN IF native_window[1] # None
         THEN Ok(native_window[1][1])
         ELSE Err(Unavailable)
    ELSE Err(Unavailable)

\* fn raw_display_handle_rwh_06(&self), taken over by display_handle():
\* the runtime's surface is not asked for
DisplayHandle(native_window) == Ok("OhosDisplayHandle")

WindowHandleCall ==
    /\ pc # "panicked" /\ nwindows > 0
    /\ \E native_window \in NativeHandles :
          Called([op |-> "window_handle", native_window |-> native_window,
                  result |-> WindowHandle(native_window)])

DisplayHandleCall ==
    /\ pc # "panicked" /\ nwindows > 0
    /\ \E native_window \in NativeHandles :
          Called([op |-> "display_handle", native_window |-> native_window,
                  result |-> DisplayHandle(native_window)])

\* ------------------------------------------------------- specifications
Next ==
    \/ RunApp
    \/ OnSurfaceCreate
    \/ OnSurfaceDestroy
    \/ OnWindowResize
    \/ OnWindowRedraw
    \/ OnContentRectChange
    \/ OnGainedFocus
    \/ OnLostFocus
    \/ OnConfigChanged
    \/ OnLowMemory
    \/ OnStart
    \/ OnResume
    \/ OnSaveState
    \/ OnPause
    \/ OnStop
    \/ OnDestroy
    \/ OnUnknown
    \/ \E input \in InputEvents : OnInput(input, FALSE)
    \/ \E cf \in ControlFlows : SetControlFlow(cf)
    \/ Exit
    \/ RunLoopReturn

Spec == Init /\ [][Next]_vars

\* single-finger touch events, one touch point each
SingleTouchInputs ==
    {TouchInput(a, <<f>>) : a \in TouchActions, f \in Fingers}

\* the driver fed with single-point touch events only, every dispatch
\* recorded in events and log
RecordedTouch ==
    /\ Len(events) < MaxEvents
    /\ \E input \in SingleTouchInputs : OnInput(input, TRUE)

NextTouch ==
    \/ RunApp
    \/ RecordedTouch

SpecTouch == Init /\ [][NextTouch]_vars

\* native input of one touch point, key events and the other input variants
SimpleInputs ==
    SingleTouchInputs \cup {KeyInput(a) : a \in KeyActions} \cup {OtherInput}

\* a native event of any kind, its input of the simple sort
SimpleEvent ==
    \/ OnSurfaceCreate
    \/ OnSurfaceDestroy
    \/ OnWindowResize
    \/ OnWindowRedraw
    \/ OnContentRectChange
    \/ OnGainedFocus
    \/ OnLostFocus
    \/ OnConfigChanged
    \/ OnLowMemory
    \/ OnStart
    \/ OnResume
    \/ OnSaveState
    \/ OnPause
    \/ OnStop
    \/ OnDestroy
    \/ OnUnknown
    \/ \E input \in SimpleInputs : OnInput(input, FALSE)

\* the driver and the application on the loop thread, with threads that
\* read the focus flag
NextFocus ==
    \/ RunApp
    \/ SimpleEvent
    \/ \E cf \in ControlFlows : SetControlFlow(cf)
    \/ Exit
    \/ RunLoopReturn
    \/ ReaderHasFocus

SpecFocus == Init /\ [][NextFocus]_vars

\* the driver and the application on the loop thread, with threads that
\* wake the loop through proxies; the runtime's loop gets round to a pending
\* wake as long as it runs
NextProxy ==
    \/ RunApp
    \/ SimpleEvent
    \/ \E cf \in ControlFlows : SetControlFlow(cf)
    \/ Exit
    \/ RunLoopReturn
    \/ WakeUp
    \/ ObserveWake

SpecProxy == Init /\ [][NextProxy]_vars /\ WF_vars(ObserveWake)

\* the driver and an application that creates windows and asks them who
\* they are
NextWindow ==
    \/ RunApp
    \/ SimpleEvent
    \/ RunLoopReturn
    \/ CreateWindow
    \/ IdCall

SpecWindow == Init /\ [][NextWindow]_vars

\* the driver seen from the windows: the events of the surface and of the
\* focus arrive, the application asks to exit, and it calls the windows'
\* geometry, handle and unsupported operations
NextSurface ==
    \/ RunApp
    \/ OnSurfaceCreate
    \/ OnSurfaceDestroy
    \/ OnWindowResize
    \/ OnGainedFocus
    \/ OnLostFocus
    \/ OnStart
    \/ OnStop
    \/ Exit
    \/ RunLoopReturn
    \/ CreateWindow
    \/ CreateCustomCursorCall
    \/ SetCursorPositionCall
    \/ SetCursorGrabCall
    \/ DragWindowCall
    \/ DragResizeWindowCall
    \/ SetCursorHittestCall
    \/ SurfaceSizeCall
    \/ OuterSizeCall
    \/ WindowHandleCall
    \/ DisplayHandleCall

SpecSurface == Init /\ [][NextSurface]_vars

\* ------------------------------------- the callbacks, one call at a time
RECURSIVE CallsMade(_)
\* how many callbacks the closure makes for the first n recorded events
CallsMade(n) == IF n = 0 THEN 0 ELSE CallsMade(n - 1) + Len(log[n])

\* run_loop may call the closure at any time
ClosureReentered == TRUE

\* the closure is an FnMut holding the application by &mut: run_loop calls
\* it for the next event once it has returned from the one before, all
\* callbacks of that one made
ClosureReturned == returned = CallsMade(Len(events))

\* touch events that press and release one or several contacts, and a key
CallInputs ==
    {TouchInput(a, pts) : a \in {"Down", "Up"}, pts \in TouchPointLists \ {<<>>}}
        \cup {KeyInput("Down")}

\* the closure is called with the next input event; its callbacks are
\* recorded in log and followed by CallbackStart and CallbackReturn
DequeueInput ==
    /\ Len(events) < MaxDequeued
    /\ ClosureReturned
    /\ \E input \in CallInputs : OnInput(input, TRUE)

\* app.window_event(..) is called: the next callback of the closure begins
CallbackStart ==
    /\ pc = "running"
    /\ started = returned
    /\ started < CallsMade(Len(events))
    /\ started' = started + 1
    /\ UNCHANGED program
    /\ UNCHANGED history
    /\ UNCHANGED <<exit_called, last_set, wakes, nwindows, call, returned, attributes>>

\* the callback returns to the closure
CallbackReturn ==
    /\ pc = "running"
    /\ started > returned
    /\ returned' = started
    /\ UNCHANGED program
    /\ UNCHANGED history
    /\ UNCHANGED <<exit_called, last_set, wakes, nwindows, call, started, attributes>>

NextCalls ==
    \/ RunApp
    \/ DequeueInput
    \/ CallbackStart
    \/ CallbackReturn

SpecCalls == Init /\ [][NextCalls]_vars

\* ------------------------------------------------ reading the history
RECURSIVE CallsFor(_, _)
\* the callbacks recorded for the native events i..j, in delivery order
CallsFor(i, j) == IF i > j THEN <<>> ELSE log[i] \o CallsFor(i + 1, j)

\* what kind of callback c is, whatever its primary flag
Shape(c) ==
    IF c.cb = "window_event" /\ c.window_id = GLOBAL_WINDOW
    THEN IF c.event.type = "PointerButton"
         THEN <<c.event.type, c.event.state>>
         ELSE <<c.event.type>>
    ELSE <<c.cb>>

Shapes(calls) == [k \in 1..Len(calls) |-> Shape(calls[k])]

Touch(action, f) == InputMainEvent(TouchInput(action, <<f>>))

IsTouch(e, action) ==
    /\ e.kind = "Input"
    /\ e.input.type = "TouchEvent"
    /\ e.input.event_type = action

\* the finger of the one touch point of a recorded single-point touch event
FingerOf(e) == e.input.touch_points[1]

\* C1: a recorded run Down, k Moves, Up on one finger delivers exactly
\* PointerEntered, PointerButton(Pressed), k PointerMoved,
\* PointerButton(Released), PointerLeft, in that order, nothing in between
C1_DownMovesUp ==
    \A f \in Fingers : \A i \in 1..Len(events) : \A j \in (i + 1)..Len(events) :
        ( /\ events[i] = Touch("Down", f)
          /\ events[j] = Touch("Up", f)
          /\ \A m \in (i + 1)..(j - 1) : events[m] = Touch("Move", f) )
        => Shapes(CallsFor(i, j)) =
             <<<<"PointerEntered">>, <<"PointerButton", "Pressed">>>>
               \o [k \in 1..(j - i - 1) |-> <<"PointerMoved">>]
               \o <<<<"PointerButton", "Released">>, <<"PointerLeft">>>>

\* a run Down, Move, Move, Up on finger 0 has been dispatched
C1_Witness ==
    events = <<Touch("Down", 0), Touch("Move", 0), Touch("Move", 0), Touch("Up", 0)>>

IsReleased(c) ==
    /\ c.cb = "window_event"
    /\ c.event.type = "PointerButton"
    /\ c.event.state = "Released"

\* C2: Down then Cancel on one finger delivers exactly PointerEntered,
\* PointerButton(Pressed), PointerLeft; and no Cancel, whatever finger is
\* tracked as primary when it arrives, delivers a PointerButton(Released)
C2_CancelNoRelease ==
    /\ \A f \in Fingers : \A i \in 1..(Len(events) - 1) :
          (events[i] = Touch("Down", f) /\ events[i + 1] = Touch("Cancel", f))
          => Shapes(CallsFor(i, i + 1)) =
               <<<<"PointerEntered">>, <<"PointerButton", "Pressed">>,
                 <<"PointerLeft">>>>
    /\ \A i \in 1..Len(events) :
          IsTouch(events[i], "Cancel")
          => /\ Shapes(log[i]) = <<<<"PointerLeft">>>>
             /\ \A k \in 1..Len(log[i]) : ~IsReleased(log[i][k])

\* Down, Cancel on the primary finger 0 while finger 1 was pressed before,
\* then a Cancel of the non-primary finger 1
C2_Witness ==
    events = <<Touch("Down", 1), Touch("Down", 0), Touch("Cancel", 0),
               Touch("Cancel", 1)>>

\* the primary flags of the callbacks recorded for native event i
PrimariesFor(i) == [k \in 1..Len(log[i]) |-> log[i][k].event.primary]

\* C3: after Down on A and then Down on B # A (no further Down), a Move on
\* A is reported primary=false and a Move on B primary=true; and the
\* PointerMoved of any Move carries primary = (its finger is the tracked
\* primary finger)
C3_MovePrimary ==
    /\ \A i \in 1..Len(events) : \A j \in (i + 1)..Len(events) :
       \A k \in (j + 1)..Len(events) :
          ( /\ IsTouch(events[i], "Down")
            /\ IsTouch(events[j], "Down")
            /\ FingerOf(events[i]) # FingerOf(events[j])
            /\ IsTouch(events[k], "Move")
            /\ \A m \in (j + 1)..(k - 1) : ~IsTouch(events[m], "Down") )
          => /\ FingerOf(events[k]) = FingerOf(events[i])
                => log[k] = <<WindowEventCall(PointerMoved(FALSE))>>
             /\ FingerOf(events[k]) = FingerOf(events[j])
                => log[k] = <<WindowEventCall(PointerMoved(TRUE))>>
    /\ \A f \in Fingers :
          last.event = Touch("Move", f)
          => out = <<WindowEventCall(PointerMoved(primary_pointer = Some(f)))>>

\* Down on 0, Down on 1, then a Move of each
C3_Witness ==
    events = <<Touch("Down", 0), Touch("Down", 1), Touch("Move", 0),
               Touch("Move", 1)>>

\* C4: every Down delivers PointerEntered then PointerButton(Pressed), both
\* primary; and after a Down on B, no Move, Up or Cancel of another finger
\* A is primary unless a Down on A came in between
C4_LatestDownIsPrimary ==
    /\ \A i \in 1..Len(events) :
          IsTouch(events[i], "Down")
          => log[i] = <<WindowEventCall(PointerEntered(TRUE)),
                        WindowEventCall(PointerButton("Pressed", TRUE))>>
    /\ \A i \in 1..Len(events) : \A j \in (i + 1)..Len(events) :
          ( /\ IsTouch(events[i], "Down")
            /\ \/ IsTouch(events[j], "Move")
               \/ IsTouch(events[j], "Up")
               \/ IsTouch(events[j], "Cancel")
            /\ FingerOf(events[j]) # FingerOf(events[i])
            /\ \A m \in (i + 1)..(j - 1) :
                  ~(IsTouch(events[m], "Down")
                      /\ FingerOf(events[m]) = FingerOf(events[j])) )
          => /\ Len(log[j]) >= 1
             /\ \A k \in 1..Len(log[j]) : ~PrimariesFor(j)[k]

\* finger 0 is pressed, finger 1 is pressed after it, finger 0 moves and
\* is lifted
C4_Witness ==
    events = <<Touch("Down", 0), Touch("Down", 1), Touch("Move", 0),
               Touch("Up", 0)>>

\* C5: primary_pointer always equals the finger of the most recently
\* processed Down (None before the first), and a step changes it only by
\* dispatching a Down touch event, to the finger of that Down's last touch
\* point: Move, Up, Cancel, key events, non-input events and the handle's
\* operations leave it alone
C5_PrimaryWrittenByDownOnly ==
    /\ [](primary_pointer = last_down)
    /\ [][primary_pointer' # primary_pointer
          => /\ last'.event.kind = "Input"
             /\ IsNonEmptyDown(last'.event.input)
             /\ primary_pointer' =
                  Some(last'.event.input.touch_points[
                         Len(last'.event.input.touch_points)])]_vars

\* the primary finger itself was lifted and is still the tracked one
C5_Witness ==
    /\ last.event = InputMainEvent(TouchInput("Up", <<1>>))
    /\ out = <<WindowEventCall(PointerButton("Released", TRUE)),
               WindowEventCall(PointerLeft(TRUE))>>
    /\ primary_pointer = Some(1)

\* C6: a key event delivers exactly one KeyboardInput, Pressed exactly for
\* action Down and Released for Up and every other action, and the loop
\* goes on
C6_KeyState ==
    \A a \in KeyActions :
        last.event = InputMainEvent(KeyInput(a))
        => /\ out = <<WindowEventCall(
                        KeyboardInput(IF a = "Down" THEN "Pressed" ELSE "Released"))>>
           /\ pc # "panicked"

\* a key event whose action is neither Down nor Up was dispatched
C6_Witness ==
    /\ last.event = InputMainEvent(KeyInput("Other"))
    /\ out = <<WindowEventCall(KeyboardInput("Released"))>>
    /\ pc = "running"

\* C7: the focus flag is true until the first focus notification and from
\* then on the value of the most recent one; the Focused(b) callback is the
\* only callback of its event and has_focus() read inside it returns b; a
\* reader thread's has_focus() returns the value of the most recent
\* notification processed before its load
C7_FocusFlag ==
    /\ HAS_FOCUS = (IF focus_note = None THEN TRUE ELSE focus_note[1])
    /\ last.event = MainEvent("GainedFocus")
       => out = <<WindowEventCall(Focused(TRUE))>> /\ in_callback = Some(TRUE)
    /\ last.event = MainEvent("LostFocus")
       => out = <<WindowEventCall(Focused(FALSE))>> /\ in_callback = Some(FALSE)
    /\ reader # None
       => reader[1].value =
            (IF reader[1].note = None THEN TRUE ELSE reader[1].note[1])

\* focus was lost, the callback saw it, and a reader thread read the flag after it
C7_Witness ==
    /\ last.event = MainEvent("LostFocus")
    /\ in_callback = Some(FALSE)
    /\ reader = Some([value |-> FALSE, note |-> Some(FALSE)])

\* the arms that must not reach the application
InertKinds ==
    {"Resume", "Pause", "SaveState", "Destroy", "ContentRectChange", "Unknown"}

\* C8: the dispatch table: each of SurfaceCreate, SurfaceDestroy, LowMemory,
\* Start, Stop, WindowRedraw makes exactly its one callback; Resume, Pause,
\* SaveState, Destroy, ContentRectChange and unknown variants make no
\* callback and leave the program state as it was
C8_DispatchTable ==
    /\ []( /\ last.event = MainEvent("SurfaceCreate")
              => out = <<Call("can_create_surfaces")>>
           /\ last.event = MainEvent("SurfaceDestroy")
              => out = <<Call("destroy_surfaces")>>
           /\ last.event = MainEvent("LowMemory") => out = <<Call("memory_warning")>>
           /\ last.event = MainEvent("Start") => out = <<Call("resumed")>>
           /\ last.event = MainEvent("Stop") => out = <<Call("suspended")>>
           /\ last.event = MainEvent("WindowRedraw")
              => out = <<WindowEventCall(RedrawRequested)>>
           /\ last.event.kind \in InertKinds => out = <<>> )
    /\ [][((last' # last \/ out' # out) /\ last'.event.kind \in InertKinds)
          => UNCHANGED program]_vars

\* Resume was dispatched after the application had asked to exit
C8_Witness ==
    /\ last.event = MainEvent("Resume")
    /\ out = <<>>
    /\ running = FALSE
    /\ exit = TRUE

\* C9: WindowResize delivers exactly one SurfaceResized, with the native
\* surface's width and height when there is a surface and 0x0 when there
\* is none, and the loop goes on
C9_WindowResize ==
    last.event = MainEvent("WindowResize")
    => /\ out = <<WindowEventCall(SurfaceResized(
                    IF last.query.native_window = None
                    THEN [width |-> 0, height |-> 0]
                    ELSE last.query.native_window[1]))>>
       /\ pc # "panicked"

\* WindowResize was dispatched while there was no native surface
C9_Witness ==
    /\ last.event = MainEvent("WindowResize")
    /\ last.query.native_window = None
    /\ out = <<WindowEventCall(SurfaceResized([width |-> 0, height |-> 0]))>>

\* C10: ConfigChanged delivers exactly one ScaleFactorChanged when a native
\* surface exists and no callback at all when none exists, and the loop
\* goes on
C10_ConfigChanged ==
    last.event = MainEvent("ConfigChanged")
    => /\ last.query.native_window # None
          => out = <<WindowEventCall(ScaleFactorChanged(
                       last.query.native_window[1], last.query.scale))>>
       /\ last.query.native_window = None => out = <<>>
       /\ pc # "panicked"

\* ConfigChanged was dispatched while there was no native surface
C10_Witness ==
    /\ last.event = MainEvent("ConfigChanged")
    /\ last.query.native_window = None
    /\ out = <<>>

\* C11: the exit flag is set-only. It starts false, exit() sets it, and once
\* exit() has been called exiting() answers true in every later state,
\* whatever native events, set_control_flow calls and further exit() calls
\* follow: exiting() is true exactly when exit() has been called.
C11_ExitSetOnly == Exiting(exit) = exit_called

\* exit() has been called and exiting() answers true in a state of the
\* running loop that a native event dispatch and a set_control_flow call
\* have also led to
C11_Witness ==
    /\ exit_called
    /\ Exiting(exit)
    /\ pc = "running"
    /\ last.event = MainEvent("Resume")
    /\ last_set = Some([mode |-> "Poll"])

\* every arm of the closure can take its event
EveryArmEnabled ==
    /\ ENABLED OnSurfaceCreate
    /\ ENABLED OnSurfaceDestroy
    /\ ENABLED OnWindowResize
    /\ ENABLED OnWindowRedraw
    /\ ENABLED OnContentRectChange
    /\ ENABLED OnGainedFocus
    /\ ENABLED OnLostFocus
    /\ ENABLED OnConfigChanged
    /\ ENABLED OnLowMemory
    /\ ENABLED OnStart
    /\ ENABLED OnResume
    /\ ENABLED OnSaveState
    /\ ENABLED OnPause
    /\ ENABLED OnStop
    /\ ENABLED OnDestroy
    /\ ENABLED OnUnknown
    /\ \A input \in SimpleInputs : ENABLED OnInput(input, FALSE)

\* C12: exit() is advisory. While run_app is inside run_loop every native
\* event is dispatched whether or not exit() has been called; a call of
\* exit() leaves the driver where it is; a dispatch made with the flag set
\* keeps the flag and does not end the loop; and run_app returns only by
\* the return of run_loop, a step that dispatches nothing and is taken with
\* the flag set or clear alike.
C12_ExitAdvisory ==
    /\ [](pc = "running" => EveryArmEnabled)
    /\ [][exit' # exit => pc' = pc /\ last' = last /\ out' = out]_vars
    /\ [][exit /\ (last' # last \/ out' # out)
            => exit' /\ pc' \in {"running", "panicked"}]_vars
    /\ [][pc' = "returned" /\ pc # "returned"
            => pc = "running" /\ last' = last /\ out' = out /\ exit' = exit]_vars

\* the loop is running with exit() called, and the event dispatched last
\* delivered its callbacks
C12_Witness ==
    /\ pc = "running"
    /\ Exiting(exit)
    /\ last.event = InputMainEvent(KeyInput("Down"))
    /\ out = <<WindowEventCall(KeyboardInput("Pressed"))>>
    /\ EveryArmEnabled

\* C13: the control flow is last-write-wins and only its setter writes it:
\* control_flow() returns the argument of the most recent set_control_flow,
\* whatever the mode and unvalidated, or the default mode if there was no
\* such call; no native event dispatch, exit() call or proxy wake changes it.
C13_ControlFlowLastWrite ==
    ControlFlowGet(control_flow)
        = (IF last_set = None THEN ControlFlowDefault ELSE last_set[1])

\* control_flow() returns the WaitUntil last set, after a native event, an
\* exit() call and proxy wakes
C13_Witness ==
    /\ last_set = Some([mode |-> "WaitUntil"])
    /\ ControlFlowGet(control_flow) = [mode |-> "WaitUntil"]
    /\ last.event = MainEvent("Pause")
    /\ exit_called
    /\ wakes > 0

\* what a proxy has no hand in
BesidesWaker ==
    <<pc, running, cause, primary_pointer, control_flow, exit, HAS_FOCUS,
      last, out, exit_called, last_set>>

\* C14: wake_up() can be called at any time, before the loop starts, while
\* it runs and after it has returned, and redundantly. A wake changes none
\* of the focus flag, the control flow, the exit flag and the primary
\* finger, nor anything else of the loop; wakes pending while the loop runs
\* lead to a loop iteration that observes them, and that one iteration
\* serves them all, however many there were.
C14_WakeUp ==
    /\ [](pc \in {"created", "running", "returned"} => ENABLED WakeUp)
    /\ [][wakes' > wakes => UNCHANGED BesidesWaker]_vars
    /\ [][wakes' < wakes => wakes' = 0 /\ UNCHANGED BesidesWaker]_vars
    /\ (wakes > 0 /\ pc = "running") ~> (wakes = 0 \/ pc # "running")

\* wake_up() has been called MaxWakes times or more since the loop last
\* looked, the loop running with the exit flag set, focus lost and a
\* primary finger tracked
C14_Witness ==
    /\ wakes = MaxWakes
    /\ pc = "running"
    /\ exit
    /\ ~HAS_FOCUS
    /\ primary_pointer # None

\* the recorded event that callback number k of the log belongs to
EventOf(k) ==
    CHOOSE i \in 1..Len(events) : CallsMade(i - 1) < k /\ k <= CallsMade(i)

\* C15: callbacks run synchronously, in dequeue order and without
\* reentrancy: at most one callback is active at any time; a callback
\* starts only when every callback before it, and so every callback of
\* every event dequeued earlier, has returned; and no event is dequeued
\* while a callback of an earlier event is active or still to be made.
C15_NoReentrancy ==
    /\ [](started - returned \in {0, 1})
    /\ [][started' # started
            => /\ started' = started + 1
               /\ returned = started
               /\ \A i \in 1..Len(events) :
                     i < EventOf(started') => returned >= CallsMade(i)]_vars
    /\ [][events' # events
            => started = CallsMade(Len(events)) /\ returned = started]_vars

\* two events dequeued, the first with several callbacks, and a callback
\* of the second is active
C15_Witness ==
    /\ Len(events) = 2
    /\ Len(log[1]) > 1
    /\ started > returned
    /\ EventOf(started) = 2

\* C16: there is exactly one window identity. Every window_event callback
\* the driver makes, for any native event, carries window id 0, and every
\* window create_window has returned, however many calls there were,
\* reports id() = 0.
C16_OneWindowId ==
    /\ \A k \in 1..Len(out) :
          out[k].cb = "window_event" => out[k].window_id = 0
    /\ \A w \in 1..nwindows : WindowId(w) = 0
    /\ call.op = "id" => call.result = 0

\* the second window created was asked for its id after a pointer event
\* reached the application
C16_Witness ==
    /\ nwindows = 2
    /\ call = [op |-> "id", window |-> 2, result |-> 0]
    /\ Len(out) = 2
    /\ out[1] = [cb |-> "window_event", window_id |-> 0, event |-> PointerEntered(TRUE)]

\* the operations C17 is about
UnsupportedOps ==
    {"create_custom_cursor", "set_cursor_position", "set_cursor_grab",
     "drag_window", "drag_resize_window", "set_cursor_hittest"}

\* everything but the note of the last call
BesidesCall ==
    <<pc, running, cause, primary_pointer, control_flow, exit, HAS_FOCUS,
      last, out, focus_note, in_callback, exit_called, last_set, wakes, nwindows>>

\* C17: create_custom_cursor, set_cursor_position, set_cursor_grab,
\* drag_window, drag_resize_window and set_cursor_hittest return the
\* "not supported" error for every argument and in every state, and a call
\* of one of them changes no state.
C17_NotSupported ==
    /\ [](call.op \in UnsupportedOps => call.result = [err |-> "NotSupported"])
    /\ [][call' # call /\ call'.op \in UnsupportedOps
            => UNCHANGED BesidesCall]_vars

\* set_cursor_grab(None) was refused on a window of a loop that has
\* returned with the exit flag set and the focus lost
C17_Witness ==
    /\ call = [op |-> "set_cursor_grab", arg |-> "None",
               result |-> [err |-> "NotSupported"]]
    /\ pc = "returned"
    /\ exit
    /\ ~HAS_FOCUS

\* C18: surface_size() and outer_size() called before any SurfaceCreate
\* has been dispatched return the fallback size 1080 x 2720 and never an
\* error, also when the runtime has no native surface. The formula says it
\* of every call, in whatever state it is made: the calls made before any
\* SurfaceCreate are among them.
C18_FallbackSize ==
    call.op \in {"surface_size", "outer_size"}
    => call.result = [width |-> 1080, height |-> 2720]

\* surface_size() was called with no native surface and before any native
\* event at all was dispatched
C18_Witness ==
    /\ call.op = "surface_size"
    /\ call.native_window = None
    /\ call.result = [width |-> 1080, height |-> 2720]
    /\ last.event = NoEvent

\* C19: the geometry queries return the last known size of the native
\* surface: once WindowResize has been dispatched while the native surface
\* was W x H, surface_size() returns W x H.
C19_LastKnownSize ==
    (call.op = "surface_size" /\ call.resized # None)
    => call.result = call.resized[1]

\* C20 as stated: window_handle() and display_handle() both fail with
\* "unavailable" whenever the native surface is null at the time of the call.
C20_HandlesUnavailable ==
    (call.op \in {"window_handle", "display_handle"} /\ call.native_window = None)
    => call.result = [err |-> "Unavailable"]

\* C20, amended: window_handle() fails with "unavailable" whenever the
\* native surface is null at the time of the call, and also when the
\* surface has no raw handle, and succeeds with the raw handle otherwise;
\* display_handle() succeeds whether or not there is a native surface;
\* neither call changes any state.
C20_WindowHandleUnavailable ==
    /\ [](call.op = "window_handle"
            => call.result =
                 (IF call.native_window \in {None, Some(None)}
                  THEN [err |-> "Unavailable"]
                  ELSE [ok |-> "raw"]))
    /\ [](call.op = "display_handle" => call.result = [ok |-> "OhosDisplayHandle"])
    /\ [][call' # call /\ call'.op \in {"window_handle", "display_handle"}
            => UNCHANGED BesidesCall]_vars

\* window_handle() failed for want of a native surface, on a window of a
\* running loop that has dispatched SurfaceDestroy
C20_Witness ==
    /\ call = [op |-> "window_handle", native_window |-> None,
               result |-> [err |-> "Unavailable"]]
    /\ pc = "running"
    /\ last.event = MainEvent("SurfaceDestroy")

\* C21: a native touch event whose action is none of Down, Move, Up and
\* Cancel makes handle_input_event abort, with no callback made and without
\* being silently ignored, whatever its list of touch points.
C21_ImpossibleActionAborts ==
    \A pts \in TouchPointLists :
        last.event = InputMainEvent(TouchInput("Other", pts))
        => pc = "panicked" /\ out = <<>>

\* the last native event was a touch event with an impossible action
ImpossibleTouch ==
    /\ last.event.kind = "Input"
    /\ last.event.input.type = "TouchEvent"
    /\ last.event.input.event_type = "Other"

\* C22 as stated: nothing aborts except the branch for the impossible
\* touch action, whatever the construction of the event loop, the native
\* events and the calls on the handle and on the windows.
C22_PanicsOnlyOnImpossibleAction == pc = "panicked" => ImpossibleTouch

\* C22, amended: there are two aborts. EventLoop::new aborts when its
\* attributes carry no OpenHarmonyApp, and handle_input_event aborts on a
\* touch event with an impossible action and at least one touch point. A
\* loop constructed with an OpenHarmonyApp never aborts on native events
\* with valid touch actions, nor on any call.
C22_PanicSites ==
    /\ [](attributes = None => pc = "panicked" /\ last.event = NoEvent)
    /\ [](attributes # None /\ pc = "panicked"
            => ImpossibleTouch /\ last.event.input.touch_points # <<>>)
    /\ [][pc' = "panicked" /\ pc # "panicked"
            => pc = "running" /\ last' # last]_vars

\* a loop constructed with an OpenHarmonyApp runs on, the exit flag set,
\* after a Cancel of two tracked contacts
C22_Witness ==
    /\ attributes # None
    /\ pc = "running"
    /\ exit
    /\ last.event = InputMainEvent(TouchInput("Cancel", <<0, 1>>))
    /\ Len(out) = 2

\* events[j] belongs to the contact that the Down at events[i] began: it is
\* a Move, Up or Cancel of the same finger, and that finger was neither
\* lifted, cancelled nor pressed again in between
SameContact(i, j) ==
    /\ i < j
    /\ IsTouch(events[i], "Down")
    /\ \/ IsTouch(events[j], "Move")
       \/ IsTouch(events[j], "Up")
       \/ IsTouch(events[j], "Cancel")
    /\ FingerOf(events[j]) = FingerOf(events[i])
    /\ \A m \in (i + 1)..(j - 1) :
          FingerOf(events[m]) = FingerOf(events[i]) => IsTouch(events[m], "Move")

\* C23 as stated: all events of one contact, from its Down to its Up or
\* Cancel, carry the same primary value, whatever events of other fingers
\* are interleaved: the callbacks of its Move, Up or Cancel carry what its
\* PointerEntered and PointerButton(Pressed) carried.
C23_SamePrimaryInContact ==
    \A i \in 1..Len(events) : \A j \in (i + 1)..Len(events) :
        SameContact(i, j)
        => \A k \in 1..Len(log[j]) : PrimariesFor(j)[k] = PrimariesFor(i)[1]

\* C23, amended: a contact enters as primary, and its later events are
\* primary exactly as long as no other finger has been pressed since its
\* Down; from the Down of another finger on, its PointerMoved,
\* PointerButton(Released) and PointerLeft carry primary = false.
C23_PrimaryUntilOtherDown ==
    \A i \in 1..Len(events) : \A j \in (i + 1)..Len(events) :
        SameContact(i, j)
        => /\ PrimariesFor(i) = <<TRUE, TRUE>>
           /\ Len(log[j]) >= 1
           /\ \A k \in 1..Len(log[j]) :
                 PrimariesFor(j)[k]
                   = (\A m \in (i + 1)..(j - 1) : ~IsTouch(events[m], "Down"))

\* finger 0 is pressed and moves as primary, finger 1 is pressed, and
\* finger 0 is lifted as non-primary
C23_Witness ==
    /\ events = <<Touch("Down", 0), Touch("Move", 0), Touch("Down", 1),
                  Touch("Up", 0)>>
    /\ PrimariesFor(2) = <<TRUE>>
    /\ PrimariesFor(4) = <<FALSE, FALSE>>

\* the touch points of the native event dispatched last
LastPoints == last.event.input.touch_points

\* whether touch point i of that event is the tracked primary finger
IsPrimaryPoint(i) == primary_pointer = Some(LastPoints[i])

\* C24: a touch event with n touch points is expanded point by point in
\* list order, all callbacks of point i before any of point i+1: Down
\* makes 2n callbacks, Move n, Up 2n and Cancel n (none when n = 0), each
\* point's callbacks carrying that point's primary value; and after a Down
\* of several points the tracked primary finger is the last of the list.
C24_PerPointExpansion ==
    /\ IsTouch(last.event, "Down")
       => /\ Len(out) = 2 * Len(LastPoints)
          /\ \A i \in 1..Len(LastPoints) :
                /\ out[2 * i - 1] = WindowEventCall(PointerEntered(TRUE))
                /\ out[2 * i] = WindowEventCall(PointerButton("Pressed", TRUE))
          /\ LastPoints # <<>>
             => primary_pointer = Some(LastPoints[Len(LastPoints)])
    /\ IsTouch(last.event, "Move")
       => /\ Len(out) = Len(LastPoints)
          /\ \A i \in 1..Len(LastPoints) :
                out[i] = WindowEventCall(PointerMoved(IsPrimaryPoint(i)))
    /\ IsTouch(last.event, "Up")
       => /\ Len(out) = 2 * Len(LastPoints)
          /\ \A i \in 1..Len(LastPoints) :
                /\ out[2 * i - 1]
                     = WindowEventCall(PointerButton("Released", IsPrimaryPoint(i)))
                /\ out[2 * i] = WindowEventCall(PointerLeft(IsPrimaryPoint(i)))
    /\ IsTouch(last.event, "Cancel")
       => /\ Len(out) = Len(LastPoints)
          /\ \A i \in 1..Len(LastPoints) :
                out[i] = WindowEventCall(PointerLeft(IsPrimaryPoint(i)))

\* an Up of the fingers 1 and 0, in that order, while finger 0 is the
\* tracked primary: the callbacks of finger 1 come first and are not primary
C24_Witness ==
    /\ last.event = InputMainEvent(TouchInput("Up", <<1, 0>>))
    /\ primary_pointer = Some(0)
    /\ out = <<WindowEventCall(PointerButton("Released", FALSE)),
               WindowEventCall(PointerLeft(FALSE)),
               WindowEventCall(PointerButton("Released", TRUE)),
               WindowEventCall(PointerLeft(TRUE))>>

\* whether the callbacks of the latest step hold a new_events call
NewEventsIn(calls) == \E k \in 1..Len(calls) : calls[k].cb = "new_events"

\* C25: run_app calls new_events exactly once per run, with the start
\* cause Init, before the first native event is dispatched: no callback
\* and no native event precedes it, the run never starts again, and no
\* later native event and no wake brings another new_events call.
C25_NewEventsOnce ==
    /\ [](pc = "created" => out = <<>> /\ last.event = NoEvent)
    /\ [](pc = "running" /\ last.event = NoEvent
            => out = <<NewEventsCall("Init")>>)
    /\ [](last.event # NoEvent => ~NewEventsIn(out))
    /\ [][pc' = "created" => pc = "created"]_vars
    /\ [][pc = "created" /\ pc' # "created"
            => pc' = "running" /\ out' = <<NewEventsCall("Init")>>]_vars
    /\ [][wakes' # wakes => out' = out /\ last' = last]_vars

\* the run has started, a Resume has been dispatched without any callback
\* and a wake is pending
C25_Witness ==
    /\ pc = "running"
    /\ last.event = MainEvent("Resume")
    /\ out = <<>>
    /\ wakes = 1

====
